---- MODULE Spec2Model ----
(***************************************************************************)
(* Foodgram backend: the user<->recipe relation handlers (favorite and     *)
(* shopping cart), the shopping-list aggregation behind the PDF download   *)
(* and the subscribe handler, as request workers running against one       *)
(* store.  Every database query of a handler is one step of its worker:    *)
(* the project sets no ATOMIC_REQUESTS, so each query autocommits and      *)
(* other requests interleave between the queries of a handler.  The        *)
(* recipe create and update handlers run in transaction.atomic: their      *)
(* statements write to the uncommitted work of the transaction (tx), read  *)
(* the committed rows plus that work, wait for the row locks of the other  *)
(* open transactions, and reach the tables at COMMIT.                      *)
(*                                                                         *)
(* Message texts are represented by the name of the Warnings attribute the *)
(* code reads; relation names are the ones the views pass                  *)
(* ('shopping_recipe_set', 'favorite_recipe_set', 'shopping_user_set').    *)
(***************************************************************************)
EXTENDS Integers, Sequences, FiniteSets, TLC

\* ---------------------------------------------------------------- bounds
Workers == 1 .. 2
MaxRequests == 3
\* recipe create and update requests served in one run
MaxWrites == 2

\* ------------------------------------------------------------ the fixture
\* users 1 and 2 are active accounts, user 3 is deactivated
Users == 1 .. 3
\* an id that names no User row
NoUser == Cardinality(Users) + 1
is_active == [u \in Users |-> u # 3]
is_superuser == [u \in Users |-> FALSE]

RecipeIds == 1 .. 3
Kinds == {"favorite", "shopping_cart"}
Methods == {"POST", "DELETE"}

\* Ingredient rows: 1 and 2 are different records with equal (name, unit)
Ingredient ==
  <<[name |-> "Flour", measurement_unit |-> "g"],
    [name |-> "Flour", measurement_unit |-> "g"],
    [name |-> "Apple", measurement_unit |-> "pcs"],
    [name |-> "Flour", measurement_unit |-> "kg"]>>

\* the collation order of the names that occur (ORDER BY compares text)
Collation == <<"Apple", "Flour", "Milk", "Zucchini">>
NameRank(n) == CHOOSE i \in 1 .. Len(Collation) : Collation[i] = n
NameLeq(a, b) == NameRank(a) <= NameRank(b)

RelKeys == Kinds \X Users \X RecipeIds

\* Tag rows, and an id that names no Tag row
TagIds == 1 .. 2
NoTag == Cardinality(TagIds) + 1
\* ids of the Ingredient rows, and an id that names no Ingredient row
IngredientIds == 1 .. Len(Ingredient)
NoIngredient == Len(Ingredient) + 1

VARIABLES
  Tag,         \* ids of the Tag rows
  recipes,     \* ids of the Recipe rows
  lineItems,   \* IngredientRecipe rows [id, recipe, ingredient, amount]
  recipeRow,   \* Recipe rows: id -> [author, name]
  recipeTags,  \* rows of the Recipe.tags through table [recipe, tag]
  tx,          \* per worker: the uncommitted work of its transaction
  relations,   \* Favorite / Shopping rows: <<kind, user, recipe>> -> number of rows
  follows,     \* Follow rows [id, user, author]
  followId,    \* primary key of the next Follow row
  subscription,\* per worker: primary key of the Follow row it fetched
  pc,          \* position of each request worker in its handler
  req,         \* the request a worker is serving
  resp,        \* the response a worker produced
  effect,      \* what the request being served has written so far
  nreq         \* requests started so far

vars == <<Tag, recipes, lineItems, recipeRow, recipeTags, tx, relations, follows, followId, subscription, pc, req, resp, effect, nreq>>

\* db_up: the store answers the queries of this request; font_ok: the PDF
\* font file can be registered (both are inputs of the download request)
\* a recipe payload: name, list of tag ids, list of [id, amount] records
NoPayload == [name |-> "", tags |-> <<>>, ingredients |-> <<>>]

\* payload: the body of a recipe write; fail_at: the statement of the
\* request the store fails; recipes_limit: the query parameter of a
\* subscriptions request ("absent": not supplied)
NoReq == [op |-> "none", method |-> "GET", user |-> 0, kind |-> "none",
          pk |-> 0, db_up |-> TRUE, font_ok |-> TRUE,
          payload |-> NoPayload, fail_at |-> "none",
          recipes_limit |-> "absent"]

Request(op, method, user, kind, pk) ==
  [op |-> op, method |-> method, user |-> user, kind |-> kind, pk |-> pk,
   db_up |-> TRUE, font_ok |-> TRUE,
   payload |-> NoPayload, fail_at |-> "none", recipes_limit |-> "absent"]

\* the field errors of a recipe payload ("": the field is valid)
NoErrors == [tags |-> "", ingredients |-> ""]

\* data: id of the object the body projects (0: no such body); rendered:
\* generate_pdf was called, with the list in ingredients; errors: the
\* field errors of a 400 answer; results: the records of a list answer
NoResp == [status |-> 0, detail |-> "", data |-> 0, ingredients |-> <<>>,
           rendered |-> FALSE, errors |-> NoErrors, results |-> {}]

Response(status, detail) ==
  [status |-> status, detail |-> detail, data |-> 0, ingredients |-> <<>>,
   rendered |-> FALSE, errors |-> NoErrors, results |-> {}]

\* ------------------------------------------------------------ permissions
is_user_valid(u) ==
  IF is_superuser[u] THEN TRUE ELSE is_active[u]

is_safe_method(method) == method \in {"GET", "HEAD", "OPTIONS"}

IsAuthenticatedAndActive(u, method) == is_user_valid(u)

IsAuthenticatedAndActiveOrReadOnly(u, method) ==
  is_safe_method(method) \/ is_user_valid(u)

\* ------------------------------------------------------------------- Init
\* no Recipe row
NoRow == [author |-> 0, name |-> ""]

\* a transaction that has written nothing. created: id of the Recipe row
\* it inserted; row: the Recipe instance in memory; saved: the instance
\* has been written to its row; target: the rows its
\* running DELETE selected; del, ins: IngredientRecipe rows it deleted and
\* inserted; old_ids: the tag ids tags.set read; tagdel, tagins: through
\* rows it deleted and inserted; reldel: keys of the Favorite / Shopping
\* rows it deleted
NoTx == [created |-> 0, row |-> NoRow, saved |-> FALSE, target |-> {},
         del |-> {}, ins |-> {}, old_ids |-> {}, tagdel |-> {},
         tagins |-> {}, reldel |-> {}]

\* keys of the Favorite / Shopping rows that the open transactions of the
\* other workers have deleted (they hold the row locks)
relations_locked(p) == UNION {tx[q].reldel : q \in Workers \ {p}}

\* recipes 1 and 2 were written by user 1, recipe 2 after recipe 1
Init ==
  /\ Tag = TagIds
  /\ recipes = {1, 2}
  /\ lineItems = {[id |-> 1, recipe |-> 1, ingredient |-> 1, amount |-> 100],
                  [id |-> 2, recipe |-> 1, ingredient |-> 3, amount |-> 2],
                  [id |-> 3, recipe |-> 2, ingredient |-> 2, amount |-> 50],
                  [id |-> 4, recipe |-> 2, ingredient |-> 4, amount |-> 1]}
  /\ recipeRow = [r \in RecipeIds |->
                    IF r \in {1, 2} THEN [author |-> 1, name |-> "Pie"]
                    ELSE NoRow]
  /\ recipeTags = {[recipe |-> 1, tag |-> 1], [recipe |-> 2, tag |-> 2]}
  /\ tx = [p \in Workers |-> NoTx]
  /\ relations = [k \in RelKeys |-> 0]
  /\ follows = {}
  /\ followId = 1
  /\ subscription = [p \in Workers |-> 0]
  /\ pc = [p \in Workers |-> "idle"]
  /\ req = [p \in Workers |-> NoReq]
  /\ resp = [p \in Workers |-> NoResp]
  /\ effect = [p \in Workers |-> "none"]
  /\ nreq = 0

\* the store the requests of the shopping-cart specification start from:
\* the line items of recipe 1 have been removed (IngredientRecipeInline
\* of the admin site)
InitCart ==
  /\ Tag = TagIds
  /\ recipes = {1, 2}
  /\ lineItems = {[id |-> 3, recipe |-> 2, ingredient |-> 2, amount |-> 50],
                  [id |-> 4, recipe |-> 2, ingredient |-> 4, amount |-> 1]}
  /\ recipeRow = [r \in RecipeIds |->
                    IF r \in {1, 2} THEN [author |-> 1, name |-> "Pie"]
                    ELSE NoRow]
  /\ recipeTags = {[recipe |-> 1, tag |-> 1], [recipe |-> 2, tag |-> 2]}
  /\ tx = [p \in Workers |-> NoTx]
  /\ relations = [k \in RelKeys |-> 0]
  /\ follows = {}
  /\ followId = 1
  /\ subscription = [p \in Workers |-> 0]
  /\ pc = [p \in Workers |-> "idle"]
  /\ req = [p \in Workers |-> NoReq]
  /\ resp = [p \in Workers |-> NoResp]
  /\ effect = [p \in Workers |-> "none"]
  /\ nreq = 0

\* a worker takes the next request when it is idle
Free(p) == pc[p] = "idle" /\ nreq < MaxRequests

Accept(p, r) ==
  /\ Free(p)
  /\ req' = [req EXCEPT ![p] = r]
  /\ effect' = [effect EXCEPT ![p] = "none"]
  /\ nreq' = nreq + 1

Finish(p, r) ==
  /\ pc' = [pc EXCEPT ![p] = "done"]
  /\ resp' = [resp EXCEPT ![p] = r]

Goto(p, label) ==
  /\ pc' = [pc EXCEPT ![p] = label]
  /\ resp' = [resp EXCEPT ![p] = NoResp]


\* the response has been sent: the worker is idle again
send_response(p) ==
  /\ pc[p] = "done"
  /\ pc' = [pc EXCEPT ![p] = "idle"]
  /\ req' = [req EXCEPT ![p] = NoReq]
  /\ resp' = [resp EXCEPT ![p] = NoResp]
  /\ effect' = [effect EXCEPT ![p] = "none"]
  /\ UNCHANGED <<Tag, recipes, lineItems, recipeRow, recipeTags, tx, relations, follows, followId, subscription, nreq>>

\* ------------------------------------------- favorite / shopping_cart
\* mutant: both view actions pass the favorite message
exists_message_same(kind) == "RECIPE_IN_FAVORITE_EXISTS"

\* the exists_message argument the two view actions pass
exists_message(kind) ==
  IF kind = "shopping_cart" THEN "RECIPE_IN_SHOPPING_CART_EXISTS"
  ELSE "RECIPE_IN_FAVORITE_EXISTS"

\* mutant: the lookup never raises DoesNotExist
recipe_found_always(pk) == TRUE

\* recipe_class.objects.get(id=pk) finds a row
recipe_found(pk) == pk \in recipes

\* getattr(recipe, relation_name).filter(user=user).exists()
relation_exists(kind, user, pk) == relations[<<kind, user, pk>>] > 0

\* mutant: the relation tables carry no uniqueness constraint
UniqueConstraint_absent(kind, user, pk) == TRUE

\* UniqueConstraint(fields=['user', 'recipe']) of the relation tables
UniqueConstraint(kind, user, pk) == relations[<<kind, user, pk>>] = 0

\* the except clauses of _handle_action, by the class of the exception
handle_action_except(exc) ==
  CASE exc = "Recipe.DoesNotExist" -> Response(404, "RECIPE_NOT_FOUND")
    [] exc = "User.DoesNotExist" -> Response(404, "USER_NOT_FOUND")
    [] exc = "django.core.exceptions.ValidationError" -> Response(400, "detail")
    [] OTHER -> Response(500, "REQUEST_PROCESSING_ERROR")

\* permission check of the view, then recipe_class.objects.get(id=pk)
handle_action_get(p) ==
  \E method \in Methods, kind \in Kinds, user \in Users, pk \in RecipeIds :
    /\ Accept(p, Request("relation", method, user, kind, pk))
    /\ IF ~IsAuthenticatedAndActiveOrReadOnly(user, method)
         THEN Finish(p, Response(403, "permission_denied"))
         ELSE IF ~recipe_found(pk)
           THEN Finish(p, handle_action_except("Recipe.DoesNotExist"))
           ELSE Goto(p, "exists")
    /\ UNCHANGED <<Tag, recipes, lineItems, recipeRow, recipeTags, tx, relations, follows, followId, subscription>>

\* relation.exists() of the POST and of the DELETE branch
handle_action_exists(p) ==
  /\ pc[p] = "exists"
  /\ LET r == req[p] IN
       IF r.method = "POST"
         THEN IF relation_exists(r.kind, r.user, r.pk)
                THEN Finish(p, Response(400, exists_message(r.kind)))
                ELSE Goto(p, "is_valid")
         ELSE IF relation_exists(r.kind, r.user, r.pk)
                THEN Goto(p, "delete")
                ELSE Finish(p, Response(400, "OBJECT_NOT_FOUND"))
  /\ UNCHANGED <<Tag, recipes, lineItems, recipeRow, recipeTags, tx, relations, follows, followId, subscription, req, effect, nreq>>

\* serializer.is_valid(raise_exception=True): the recipe primary key must
\* resolve and UniqueTogetherValidator must find no row; a failure raises
\* rest_framework's ValidationError
handle_action_is_valid(p) ==
  /\ pc[p] = "is_valid"
  /\ LET r == req[p] IN
       IF ~recipe_found(r.pk) \/ relation_exists(r.kind, r.user, r.pk)
         THEN Finish(p, handle_action_except(
                          "rest_framework.exceptions.ValidationError"))
         ELSE Goto(p, "save")
  /\ UNCHANGED <<Tag, recipes, lineItems, recipeRow, recipeTags, tx, relations, follows, followId, subscription, req, effect, nreq>>

\* serializer.save(): INSERT into the relation table
handle_action_save(p) ==
  /\ pc[p] = "save"
  /\ <<req[p].kind, req[p].user, req[p].pk>> \notin relations_locked(p)
  /\ LET r == req[p]
         key == <<r.kind, r.user, r.pk>>
     IN IF ~recipe_found(r.pk) \/ ~UniqueConstraint(r.kind, r.user, r.pk)
          THEN /\ Finish(p, handle_action_except("IntegrityError"))
               /\ UNCHANGED <<relations, effect>>
          ELSE /\ relations' = [relations EXCEPT ![key] = @ + 1]
               /\ effect' = [effect EXCEPT ![p] = "insert"]
               /\ Finish(p, [Response(201, "") EXCEPT !.data = r.pk])
  /\ UNCHANGED <<Tag, recipes, lineItems, recipeRow, recipeTags, tx, follows, followId, subscription, req, nreq>>

\* mutant: the DELETE branch answers 204 without deleting
handle_action_delete_keeps_rows(p) ==
  /\ pc[p] = "delete"
  /\ Finish(p, Response(204, ""))
  /\ UNCHANGED <<Tag, recipes, lineItems, recipeRow, recipeTags, tx, relations, follows, followId, subscription, req, effect, nreq>>

\* relation.delete(): DELETE of the rows the filter matches now
handle_action_delete(p) ==
  /\ pc[p] = "delete"
  /\ <<req[p].kind, req[p].user, req[p].pk>> \notin relations_locked(p)
  /\ LET r == req[p]
         key == <<r.kind, r.user, r.pk>>
     IN /\ relations' = [relations EXCEPT ![key] = 0]
        /\ effect' = [effect EXCEPT ![p] =
                        IF relations[key] > 0 THEN "delete" ELSE "none"]
        /\ Finish(p, Response(204, ""))
  /\ UNCHANGED <<Tag, recipes, lineItems, recipeRow, recipeTags, tx, follows, followId, subscription, req, nreq>>

\* ------------------------------------------------ ShoppingPDFView.get
\* mutant: the cart rows of every user are read
shopping_recipes_of_all(user) ==
  {r \in RecipeIds :
     \E u \in Users : relations[<<"shopping_cart", u, r>>] > 0}

\* request.user.shopping_user_set.all().values_list('recipe_id', flat=True)
shopping_recipes(user) ==
  {r \in RecipeIds : relations[<<"shopping_cart", user, r>>] > 0}

\* IngredientRecipe.objects.filter(recipe_id__in=...)
filter_recipe_id_in(ids) == {li \in lineItems : li.recipe \in ids}

\* mutant: the query groups by the ingredient row
values_with_ingredient_id(li) ==
  <<Ingredient[li.ingredient].name, Ingredient[li.ingredient].measurement_unit,
    li.ingredient>>

\* .values('ingredient__name', 'ingredient__measurement_unit'): the columns
\* of the joined Ingredient row the query groups by
values(li) ==
  <<Ingredient[li.ingredient].name, Ingredient[li.ingredient].measurement_unit>>

RECURSIVE Sum(_)
Sum(rows) ==
  IF rows = {} THEN 0
  ELSE LET li == CHOOSE x \in rows : TRUE
       IN li.amount + Sum(rows \ {li})

\* .annotate(total_amount=Sum('amount')): one row per group
annotate(rows) ==
  {[name |-> g[1], unit |-> g[2],
    amount |-> Sum({li \in rows : values(li) = g})] :
     g \in {values(li) : li \in rows}}

\* mutant: no ORDER BY, the rows come in any order
order_by_missing(groups) ==
  LET n == Cardinality(groups)
  IN {s \in [1 .. n -> groups] : \A i, j \in 1 .. n : i # j => s[i] # s[j]}

\* .order_by('ingredient__name'): the orders the database may return, rows
\* with equal names in either order
order_by(groups) ==
  LET n == Cardinality(groups)
  IN {s \in [1 .. n -> groups] :
        /\ \A i, j \in 1 .. n : i # j => s[i] # s[j]
        /\ \A i \in 1 .. n - 1 : NameLeq(s[i].name, s[i + 1].name)}

ingredients_data(user) ==
  order_by(annotate(filter_recipe_id_in(shopping_recipes(user))))

\* mutant: no empty check, an empty list is rendered too
get_response_renders_empty(db_up, font_ok, ingredients_list) ==
  IF ~db_up
    THEN Response(500, "OperationalError")
    ELSE IF ~font_ok
      THEN [Response(500, "FONT_REGISTRATION_ERROR")
              EXCEPT !.rendered = TRUE, !.ingredients = ingredients_list]
      ELSE [Response(200, "")
              EXCEPT !.rendered = TRUE, !.ingredients = ingredients_list]

\* mutant: an empty list is answered as a missing recipe
get_response_empty_not_found(db_up, font_ok, ingredients_list) ==
  IF ~db_up
    THEN Response(500, "OperationalError")
    ELSE IF ingredients_list = <<>>
      THEN Response(404, "RECIPE_NOT_FOUND")
      ELSE IF ~font_ok
        THEN [Response(500, "FONT_REGISTRATION_ERROR")
                EXCEPT !.rendered = TRUE, !.ingredients = ingredients_list]
        ELSE [Response(200, "")
                EXCEPT !.rendered = TRUE, !.ingredients = ingredients_list]

\* mutant: a failed fetch is swallowed into an empty list
get_response_swallows_failure(db_up, font_ok, ingredients_list) ==
  IF ~db_up \/ ingredients_list = <<>>
    THEN Response(204, "SHOPPING_LIST_EMPTY")
    ELSE IF ~font_ok
      THEN [Response(500, "FONT_REGISTRATION_ERROR")
              EXCEPT !.rendered = TRUE, !.ingredients = ingredients_list]
      ELSE [Response(200, "")
              EXCEPT !.rendered = TRUE, !.ingredients = ingredients_list]

\* the body of get after the query: the empty check, generate_pdf and the
\* except clauses
get_response(db_up, font_ok, ingredients_list) ==
  IF ~db_up
    THEN Response(500, "OperationalError")
    ELSE IF ingredients_list = <<>>
      THEN Response(204, "SHOPPING_LIST_EMPTY")
      ELSE IF ~font_ok
        THEN [Response(500, "FONT_REGISTRATION_ERROR")
                EXCEPT !.rendered = TRUE, !.ingredients = ingredients_list]
        ELSE [Response(200, "")
                EXCEPT !.rendered = TRUE, !.ingredients = ingredients_list]

\* mutant: the download empties the cart it has listed
ShoppingPDFView_get_clears_cart(p) ==
  \E user \in Users, db_up \in BOOLEAN, font_ok \in BOOLEAN :
    /\ db_up \/ font_ok
    /\ Accept(p, [Request("download", "GET", user, "none", 0)
                    EXCEPT !.db_up = db_up, !.font_ok = font_ok])
    /\ IF ~IsAuthenticatedAndActive(user, "GET")
         THEN Finish(p, Response(403, "permission_denied"))
         ELSE \E ingredients_list \in ingredients_data(user) :
                Finish(p, get_response(db_up, font_ok, ingredients_list))
    /\ relations' = [k \in RelKeys |->
                       IF k[1] = "shopping_cart" /\ k[2] = user THEN 0
                       ELSE relations[k]]
    /\ UNCHANGED <<Tag, recipes, lineItems, recipeRow, recipeTags, tx, follows, followId, subscription>>

\* ShoppingPDFView.get: permission check, the one query of the
\* aggregation, the empty check and the rendering
ShoppingPDFView_get(p) ==
  \E user \in Users, db_up \in BOOLEAN, font_ok \in BOOLEAN :
    /\ db_up \/ font_ok
    /\ Accept(p, [Request("download", "GET", user, "none", 0)
                    EXCEPT !.db_up = db_up, !.font_ok = font_ok])
    /\ IF ~IsAuthenticatedAndActive(user, "GET")
         THEN Finish(p, Response(403, "permission_denied"))
         ELSE \E ingredients_list \in ingredients_data(user) :
                Finish(p, get_response(db_up, font_ok, ingredients_list))
    /\ UNCHANGED <<Tag, recipes, lineItems, recipeRow, recipeTags, tx, relations, follows, followId, subscription>>

\* -------------------------------------------- UserProfileViewSet.subscribe
\* mutant: validate without the user == author check
validate_without_self_check(user, author) ==
  IF ~is_active[author] THEN "INACTIVE_USER"
  ELSE IF \E f \in follows : f.user = user /\ f.author = author
    THEN "SUBSCRIPTION_ALREADY_EXISTS"
  ELSE "valid"

\* mutant: validate without the is_active check
validate_without_active_check(user, author) ==
  IF user = author THEN "SELF_SUBSCRIBE_FORBIDDEN"
  ELSE IF \E f \in follows : f.user = user /\ f.author = author
    THEN "SUBSCRIPTION_ALREADY_EXISTS"
  ELSE "valid"

\* mutant: validate without the exists() check
validate_without_exists_check(user, author) ==
  IF user = author THEN "SELF_SUBSCRIBE_FORBIDDEN"
  ELSE IF ~is_active[author] THEN "INACTIVE_USER"
  ELSE "valid"

\* SubscribeSerializer.validate: the message of the ValidationError, or
\* "valid"
validate(user, author) ==
  IF user = author THEN "SELF_SUBSCRIBE_FORBIDDEN"
  ELSE IF ~is_active[author] THEN "INACTIVE_USER"
  ELSE IF \E f \in follows : f.user = user /\ f.author = author
    THEN "SUBSCRIPTION_ALREADY_EXISTS"
  ELSE "valid"

\* the except clauses of subscribe
subscribe_except(exc) ==
  CASE exc = "Http404" -> Response(404, "USER_NOT_FOUND")
    [] exc = "Follow.DoesNotExist" -> Response(400, "SUBSCRIPTION_NOT_FOUND")
    [] OTHER -> Response(500, "REQUEST_PROCESSING_ERROR")

\* permission check, then get_object_or_404(User, pk=pk)
subscribe_get_author(p) ==
  \E method \in Methods, user \in Users, pk \in Users \cup {NoUser} :
    /\ Accept(p, Request("subscribe", method, user, "none", pk))
    /\ IF ~IsAuthenticatedAndActive(user, method)
         THEN Finish(p, Response(403, "permission_denied"))
         ELSE IF pk \notin Users
           THEN Finish(p, subscribe_except("Http404"))
           ELSE Goto(p, IF method = "POST" THEN "sub_is_valid" ELSE "sub_get")
    /\ UNCHANGED <<Tag, recipes, lineItems, recipeRow, recipeTags, tx, relations, follows, followId, subscription>>

\* serializer.is_valid(raise_exception=True)
subscribe_is_valid(p) ==
  /\ pc[p] = "sub_is_valid"
  /\ LET msg == validate(req[p].user, req[p].pk) IN
       IF msg # "valid" THEN Finish(p, Response(400, msg))
       ELSE Goto(p, "sub_save")
  /\ UNCHANGED <<Tag, recipes, lineItems, recipeRow, recipeTags, tx, relations, follows, followId, subscription, req, effect, nreq>>

\* mutant: the Follow table has no unique constraint
unique_followings_absent(user, author) == TRUE

\* Follow.Meta.constraints 'unique_followings': the table accepts a row
\* for (user, author)
unique_followings(user, author) ==
  ~\E f \in follows : f.user = user /\ f.author = author

\* serializer.save(): Follow.objects.create -> Follow.save -> INSERT
subscribe_save(p) ==
  /\ pc[p] = "sub_save"
  /\ LET user == req[p].user
         author == req[p].pk
     IN IF user = author
          THEN /\ Finish(p, subscribe_except("ValueError"))
               /\ UNCHANGED <<follows, followId, effect>>
          ELSE IF ~unique_followings(user, author)
            THEN /\ Finish(p, subscribe_except("IntegrityError"))
                 /\ UNCHANGED <<follows, followId, effect>>
            ELSE /\ follows' = follows \cup
                       {[id |-> followId, user |-> user, author |-> author]}
                 /\ followId' = followId + 1
                 /\ effect' = [effect EXCEPT ![p] = "insert"]
                 /\ Finish(p, [Response(201, "") EXCEPT !.data = author])
  /\ UNCHANGED <<Tag, recipes, lineItems, recipeRow, recipeTags, tx, relations, subscription, req, nreq>>

\* Follow.objects.get(user=request.user, author=author)
subscribe_get_follow(p) ==
  /\ pc[p] = "sub_get"
  /\ LET found == {f \in follows :
                     f.user = req[p].user /\ f.author = req[p].pk}
     IN IF found = {}
          THEN /\ Finish(p, subscribe_except("Follow.DoesNotExist"))
               /\ UNCHANGED subscription
          ELSE IF Cardinality(found) > 1
            THEN /\ Finish(p, subscribe_except("MultipleObjectsReturned"))
                 /\ UNCHANGED subscription
            ELSE /\ Goto(p, "sub_delete")
                 /\ subscription' = [subscription EXCEPT ![p] =
                                       (CHOOSE f \in found : TRUE).id]
  /\ UNCHANGED <<Tag, recipes, lineItems, recipeRow, recipeTags, tx, relations, follows, followId, req, effect, nreq>>

\* mutant: the fetched row is not deleted
subscribe_delete_keeps_row(p) ==
  /\ pc[p] = "sub_delete"
  /\ effect' = [effect EXCEPT ![p] = "none"]
  /\ subscription' = [subscription EXCEPT ![p] = 0]
  /\ Finish(p, Response(204, ""))
  /\ UNCHANGED <<Tag, recipes, lineItems, recipeRow, recipeTags, tx, relations, follows, followId, req, nreq>>

\* subscription.delete(): DELETE of the fetched row by primary key
subscribe_delete(p) ==
  /\ pc[p] = "sub_delete"
  /\ follows' = {f \in follows : f.id # subscription[p]}
  /\ effect' = [effect EXCEPT ![p] =
                  IF follows' # follows THEN "delete" ELSE "none"]
  /\ subscription' = [subscription EXCEPT ![p] = 0]
  /\ Finish(p, Response(204, ""))
  /\ UNCHANGED <<Tag, recipes, lineItems, recipeRow, recipeTags, tx, relations, followId, req, nreq>>

\* --------------------------------------- UserProfileViewSet.subscriptions
\* the values of the recipes_limit query parameter that are tried
LimitParams == {"absent", "", "0", "1", "2", "-1", "x"}

\* int(s): the strings that parse, with their values
IntLiterals == {<<"0", 0>>, <<"1", 1>>, <<"2", 2>>, <<"-1", 0 - 1>>}
is_int_literal(s) == \E l \in IntLiterals : l[1] = s
int(s) == (CHOOSE l \in IntLiterals : l[1] = s)[2]

\* the ids in ids in descending order
RECURSIVE Descending(_)
Descending(ids) ==
  IF ids = {} THEN <<>>
  ELSE LET m == CHOOSE x \in ids : \A y \in ids : y <= x
       IN <<m>> \o Descending(ids \ {m})

\* user.recipes.all() under Recipe.Meta.ordering ('-pub_date',): pub_date
\* is set when the row is created and ids grow with creation, so the
\* newest recipe is the one with the greatest id
user_recipes(user) ==
  Descending({r \in recipes : recipeRow[r].author = user})

\* the limit get_recipes computes from the query parameter: kind is
\* "None", "ValueError" or "int", and then value is the integer
parse_recipes_limit(param) ==
  IF param \in {"absent", ""} THEN [kind |-> "None", value |-> 0]
  ELSE IF ~is_int_literal(param) THEN [kind |-> "ValueError", value |-> 0]
  ELSE IF int(param) < 0 THEN [kind |-> "ValueError", value |-> 0]
  ELSE [kind |-> "int", value |-> int(param)]

\* get_recipes raises for this parameter
get_recipes_raises(param) == parse_recipes_limit(param).kind = "ValueError"

\* SubscriptionsSerializer.get_recipes: the recipe ids in the record of
\* user. The slice is guarded by `if recipes_limit:`, which is false for
\* None and for the integer 0.
get_recipes(user, param) ==
  LET recipes_limit == parse_recipes_limit(param)
      all == user_recipes(user)
  IN IF recipes_limit.kind = "int" /\ recipes_limit.value # 0
       THEN SubSeq(all, 1, IF recipes_limit.value < Len(all)
                             THEN recipes_limit.value ELSE Len(all))
     ELSE all

\* User.objects.filter(following__user=user)
followed_users(user) == {f.author : f \in {g \in follows : g.user = user}}

\* subscriptions: the followed users, each serialized with get_recipes. The
\* ValidationError get_recipes raises is django.core.exceptions', which
\* the REST framework does not turn into a response: the answer is 500.
subscriptions(p) ==
  \E user \in Users, param \in LimitParams :
    /\ Accept(p, [Request("subscriptions", "GET", user, "none", 0)
                    EXCEPT !.recipes_limit = param])
    /\ IF ~IsAuthenticatedAndActive(user, "GET")
         THEN Finish(p, Response(403, "permission_denied"))
         ELSE IF followed_users(user) # {} /\ get_recipes_raises(param)
           THEN Finish(p, Response(500, "server_error"))
           ELSE Finish(p, [Response(200, "") EXCEPT !.results =
                  {[id |-> a, recipes |-> get_recipes(a, param)] :
                     a \in followed_users(user)}])
    /\ UNCHANGED <<Tag, recipes, lineItems, recipeRow, recipeTags, tx, relations, follows, followId, subscription>>

\* ------------------------------------------- RecipesSerializer validation
Item(id, amount) == [id |-> id, amount |-> amount]

\* the payloads that pass validation
ValidPayloads ==
  {[name |-> "Soup", tags |-> <<2>>, ingredients |-> <<Item(2, 30)>>],
   [name |-> "Cake", tags |-> <<1>>,
    ingredients |-> <<Item(3, 5), Item(4, 1)>>]}

\* payloads with a defect in the tag list: duplicate, empty, missing id
BadTagLists == {<<1, 1>>, <<>>, <<NoTag>>}

\* payloads with a defect in the ingredient list: duplicate, empty,
\* missing id, negative amount, duplicate with amount zero
BadIngredientLists ==
  {<<Item(1, 5), Item(1, 7)>>, <<>>, <<Item(NoIngredient, 1)>>,
   <<Item(2, 3), Item(3, 0 - 2)>>, <<Item(1, 0), Item(1, 5)>>}

Payloads ==
  ValidPayloads
    \cup {[name |-> "Soup", tags |-> t, ingredients |-> <<Item(2, 30)>>] :
            t \in BadTagLists}
    \cup {[name |-> "Soup", tags |-> <<2>>, ingredients |-> i] :
            i \in BadIngredientLists}

\* field_name.upper()
upper(field_name) ==
  IF field_name = "tags" THEN "TAGS" ELSE "INGREDIENTS"

\* set(value_ids)
Range(seq) == {seq[i] : i \in 1 .. Len(seq)}

\* mutant: every amount is accepted
validate_positive_amount_accepts_all(amount) == "valid"

\* validate_positive_amount: the error of an amount, or "valid"
validate_positive_amount(amount) ==
  IF amount < 1 THEN "InvalidAmount" ELSE "valid"

\* validate_required_field: the message raised, or "valid"
validate_required_field(value, field_name) ==
  IF value = <<>> THEN upper(field_name) \o "_REQUIRED" ELSE "valid"

\* mutant: the id list is turned into a set before it is looked at
validate_ids_dedupes(vals, existing, values_prefix) ==
  IF validate_required_field(vals, values_prefix) # "valid"
    THEN validate_required_field(vals, values_prefix)
  ELSE IF {v.id : v \in Range(vals)} \ existing # {}
    THEN upper(values_prefix) \o "_NOT_FOUND"
  ELSE "valid"

\* mutant: the ids are not looked up
validate_ids_without_lookup(vals, existing, values_prefix) ==
  IF validate_required_field(vals, values_prefix) # "valid"
    THEN validate_required_field(vals, values_prefix)
  ELSE IF Len(vals) # Cardinality({v.id : v \in Range(vals)})
    THEN upper(values_prefix) \o "_DUPLICATE_ERROR"
  ELSE "valid"

\* validate_ids_not_null_unique_collection: the message raised, or
\* "valid"; existing are the ids of the rows of values_model
validate_ids_not_null_unique_collection(vals, existing, values_prefix) ==
  LET value_ids == [i \in 1 .. Len(vals) |-> vals[i].id]
      unique_ids == Range(value_ids)
  IN IF validate_required_field(vals, values_prefix) # "valid"
       THEN validate_required_field(vals, values_prefix)
     ELSE IF Len(value_ids) # Cardinality(unique_ids)
       THEN upper(values_prefix) \o "_DUPLICATE_ERROR"
     ELSE IF unique_ids \ existing # {}
       THEN upper(values_prefix) \o "_NOT_FOUND"
     ELSE "valid"

\* TagsWriteSerializer(many=True).to_internal_value: each id becomes
\* {'id': id}
TagsWriteSerializer(tags) == [i \in 1 .. Len(tags) |-> [id |-> tags[i]]]

\* IngredientRecipeSerializer(many=True): the validators of the amount
\* field of each item
IngredientRecipeSerializer(ingredients) ==
  IF \E i \in 1 .. Len(ingredients) :
       validate_positive_amount(ingredients[i].amount) # "valid"
    THEN "InvalidAmount" ELSE "valid"

\* mutant: the tag ids are taken as they come
validate_tags_without_lookup(tags) ==
  validate_ids_without_lookup(tags, Tag, "tags")

\* RecipesSerializer.validate_tags
validate_tags(tags) ==
  validate_ids_not_null_unique_collection(tags, Tag, "tags")

\* RecipesSerializer.validate_ingredients
validate_ingredients(ingredients) ==
  IF \E i \in 1 .. Len(ingredients) :
       validate_positive_amount(ingredients[i].amount) # "valid"
    THEN "InvalidAmount"
  ELSE validate_ids_not_null_unique_collection(
         ingredients, IngredientIds, "ingredients")

\* the error of a field: that of the field itself, else that of its
\* validate_<field> method; "" when there is none
field_error(field, method) ==
  IF field # "valid" THEN field ELSE IF method # "valid" THEN method ELSE ""

\* serializer.is_valid: every field is validated, and the errors are
\* keyed by field name
is_valid_errors(payload) ==
  [tags |-> field_error("valid",
              validate_tags(TagsWriteSerializer(payload.tags))),
   ingredients |-> field_error(
              IngredientRecipeSerializer(payload.ingredients),
              validate_ingredients(payload.ingredients))]

\* ------------------------------------------ RecipesViewSet create / update
\* the statements of a recipe write at which the store can be made to fail
FailPoints == {"none", "bulk_create", "save_tags"}

\* the recipe writes that are tried: every payload by user 2 (create) and
\* by user 1 on recipe 1 (update); the valid payloads also on the other
\* recipes; the two-ingredient payload with each store failure; one
\* request per user and recipe that is refused before the payload is read
Tried(user, pk, payload, fail_at) ==
  LET cake == CHOOSE v \in ValidPayloads : Len(v.ingredients) > 1
      accepted == /\ is_user_valid(user)
                  /\ pk # 0 => (pk \in recipes /\ recipeRow[pk].author = user)
  IN /\ fail_at # "none" => payload = cake
     /\ payload \notin ValidPayloads => (accepted /\ pk \in {0, 1})
     /\ ~accepted => (payload = cake /\ fail_at = "none")
     /\ pk = 0 => user # 1
     /\ nreq < MaxWrites

\* mutant: every active user passes the object check
has_object_permission_without_author(user, method, obj) ==
  is_safe_method(method) \/ is_user_valid(user)

\* has_object_permission of IsAuthenticatedAndActiveAndAuthorOrCreateOrReadOnly
has_object_permission(user, method, obj) ==
  is_safe_method(method) \/ (is_user_valid(user) /\ obj.author = user)

\* what a statement of the transaction of p reads: the committed rows it
\* has not deleted and the rows it has inserted
visible_items(p) == (lineItems \ tx[p].del) \cup tx[p].ins
visible_tags(p) == (recipeTags \ tx[p].tagdel) \cup tx[p].tagins

\* rows that the open transactions of the other workers have deleted
\* (they hold the row locks) or inserted (they hold the index entries)
items_locked(p) == UNION {tx[q].del \cup tx[q].ins : q \in Workers \ {p}}
tags_locked(p) ==
  UNION {tx[q].tagdel \cup tx[q].tagins : q \in Workers \ {p}}

\* the Recipe row the request of p writes
recipe_id(p) ==
  IF req[p].op = "recipe_create" THEN tx[p].created ELSE req[p].pk

\* COMMIT: the writes in work become the rows of recipe id
commit(work, id) ==
  /\ recipes' = IF work.saved THEN recipes \cup {id} ELSE recipes
  /\ recipeRow' = IF work.saved THEN [recipeRow EXCEPT ![id] = work.row]
                  ELSE recipeRow
  /\ lineItems' = (lineItems \ work.del) \cup work.ins
  /\ recipeTags' = (recipeTags \ work.tagdel) \cup work.tagins

\* mutant: the writes made before the exception stay
rollback_keeps_writes(work, id) == commit(work, id)

\* an exception leaves the atomic block of handle_request: ROLLBACK
rollback(work, id) == UNCHANGED <<recipes, recipeRow, lineItems, recipeTags>>

\* an exception that no handler catches: the transaction is rolled back
\* and the answer is 500
raise_exception(p, work) ==
  /\ rollback(work, recipe_id(p))
  /\ tx' = [tx EXCEPT ![p] = NoTx]
  /\ Finish(p, Response(500, "server_error"))

\* create: check_permissions, is_valid
RecipesViewSet_create(p) ==
  \E user \in Users, payload \in Payloads, fail_at \in FailPoints :
    LET allowed == IsAuthenticatedAndActiveOrReadOnly(user, "POST")
        errors == is_valid_errors(payload)
    IN /\ Tried(user, 0, payload, fail_at)
       /\ \E id \in RecipeIds :
            id \notin recipes /\ \A q \in Workers : tx[q].created # id
       /\ Accept(p, [Request("recipe_create", "POST", user, "none", 0)
                       EXCEPT !.payload = payload, !.fail_at = fail_at])
       /\ IF ~allowed
            THEN Finish(p, Response(403, "permission_denied"))
            ELSE IF errors # NoErrors
              THEN Finish(p, [Response(400, "validation_error")
                                EXCEPT !.errors = errors])
              ELSE Goto(p, "create")
       /\ UNCHANGED <<Tag, recipes, lineItems, recipeRow, recipeTags, tx, relations, follows, followId, subscription>>

\* RecipesSerializer.create: Recipe.objects.create(author=request.user, ...)
Recipe_objects_create(p) ==
  /\ pc[p] = "create"
  /\ LET free == {id \in RecipeIds :
                    id \notin recipes /\ \A q \in Workers : tx[q].created # id}
         id == CHOOSE x \in free : \A y \in free : x <= y
     IN /\ free # {}
        /\ tx' = [tx EXCEPT ![p].created = id,
                            ![p].row = [author |-> req[p].user,
                                        name |-> req[p].payload.name],
                            ![p].saved = TRUE]
  /\ Goto(p, "delete")
  /\ UNCHANGED <<Tag, recipes, lineItems, recipeRow, recipeTags, relations, follows, followId, subscription, req, effect, nreq>>

\* mutant: update builds the row from the payload alone
update_instance_replaces(instance, validated_data) ==
  [NoRow EXCEPT !.name = validated_data.name]

\* RecipesSerializer.update: the fields assigned to the instance that
\* instance.save() then writes (author is not among them)
update_instance(instance, validated_data) ==
  [instance EXCEPT !.name = validated_data.name]

\* update: get_object, check_object_permissions, is_valid, and the
\* assignments of RecipesSerializer.update to the instance
RecipesViewSet_update(p) ==
  \E user \in Users, pk \in RecipeIds, payload \in Payloads,
     fail_at \in FailPoints :
    LET allowed == pk \in recipes
                     /\ has_object_permission(user, "PUT", recipeRow[pk])
        errors == is_valid_errors(payload)
    IN /\ Tried(user, pk, payload, fail_at)
       /\ Accept(p, [Request("recipe_update", "PUT", user, "none", pk)
                       EXCEPT !.payload = payload, !.fail_at = fail_at])
       /\ IF pk \notin recipes
            THEN Finish(p, Response(404, "not_found")) /\ UNCHANGED tx
            ELSE IF ~allowed
              THEN Finish(p, Response(403, "permission_denied"))
                   /\ UNCHANGED tx
              ELSE IF errors # NoErrors
                THEN Finish(p, [Response(400, "validation_error")
                                  EXCEPT !.errors = errors])
                     /\ UNCHANGED tx
                ELSE /\ Goto(p, "delete")
                     /\ tx' = [tx EXCEPT ![p].row =
                                 update_instance(recipeRow[pk], payload)]
       /\ UNCHANGED <<Tag, recipes, lineItems, recipeRow, recipeTags, relations, follows, followId, subscription>>

\* mutant: the DELETE has no WHERE clause
filter_recipe_all(rows, instance) == rows

\* IngredientRecipe.objects.filter(recipe=instance)
filter_recipe(rows, instance) == {li \in rows : li.recipe = instance}

\* save_ingredients: the DELETE of .filter(recipe=instance).delete() takes
\* its snapshot and selects the rows of the recipe
save_ingredients_filter(p) ==
  /\ pc[p] = "delete"
  /\ tx' = [tx EXCEPT ![p].target =
              filter_recipe(visible_items(p), recipe_id(p))]
  /\ Goto(p, "delete_rows")
  /\ UNCHANGED <<Tag, recipes, lineItems, recipeRow, recipeTags, relations, follows, followId, subscription, req, effect, nreq>>

\* the DELETE removes the selected rows; it waits while another open
\* transaction holds the lock of one of them, and a row that transaction
\* removed in the meantime is skipped
save_ingredients_delete(p) ==
  /\ pc[p] = "delete_rows"
  /\ tx[p].target \cap items_locked(p) = {}
  /\ tx' = [tx EXCEPT ![p].del = @ \cup (tx[p].target \cap lineItems),
                      ![p].ins = @ \ tx[p].target,
                      ![p].target = {}]
  /\ Goto(p, "bulk_create")
  /\ UNCHANGED <<Tag, recipes, lineItems, recipeRow, recipeTags, relations, follows, followId, subscription, req, effect, nreq>>

\* the primary keys carried by the IngredientRecipe rows of the store and
\* of the open transactions
used_ids ==
  {li.id : li \in lineItems \cup
     UNION {tx[q].del \cup tx[q].ins \cup tx[q].target : q \in Workers}}

\* the primary key of the i-th row of an INSERT of n rows: keys are new,
\* which ones they are has no effect
new_id(i, n) ==
  LET unused == (1 .. (Cardinality(used_ids) + n)) \ used_ids
  IN CHOOSE x \in unused : Cardinality({y \in unused : y < x}) = i - 1

\* the rows bulk_create builds from the validated ingredients
ingredient_recipes(p) ==
  LET items == req[p].payload.ingredients
  IN {[id |-> new_id(i, Len(items)), recipe |-> recipe_id(p),
       ingredient |-> items[i].id, amount |-> items[i].amount] :
        i \in 1 .. Len(items)}

\* the rows a bulk_create that fails midway had inserted: the first one
inserted_before_failure(p) ==
  {n \in ingredient_recipes(p) :
     n.ingredient = req[p].payload.ingredients[1].id}

\* mutant: the table has no constraint on (ingredient, recipe)
unique_recipe_ingredient_absent(rows, present) == TRUE

\* IngredientRecipe.Meta.constraints: no row of rows repeats the
\* (ingredient, recipe) of a row in present
unique_recipe_ingredient(rows, present) ==
  ~\E n \in rows :
     \E li \in (present \cup rows) \ {n} :
       li.recipe = n.recipe /\ li.ingredient = n.ingredient

\* save_ingredients: IngredientRecipe.objects.bulk_create. The INSERT waits
\* while another open transaction holds a row with one of its keys.
save_ingredients_bulk_create(p) ==
  /\ pc[p] = "bulk_create"
  /\ IF req[p].fail_at = "bulk_create"
       THEN raise_exception(p, [tx[p] EXCEPT !.ins =
                                   @ \cup inserted_before_failure(p)])
       ELSE /\ unique_recipe_ingredient(ingredient_recipes(p),
                                        items_locked(p))
            /\ IF ~unique_recipe_ingredient(ingredient_recipes(p),
                                            visible_items(p))
                 THEN raise_exception(p, tx[p])
                 ELSE /\ tx' = [tx EXCEPT ![p].ins =
                                  @ \cup ingredient_recipes(p)]
                      /\ Goto(p, "tags_read")
                      /\ UNCHANGED <<recipes, lineItems, recipeRow, recipeTags>>
  /\ UNCHANGED <<Tag, relations, follows, followId, subscription, req, effect, nreq>>

\* save_tags: instance.tags.set reads the tag ids the recipe has
save_tags_old_ids(p) ==
  /\ pc[p] = "tags_read"
  /\ tx' = [tx EXCEPT ![p].old_ids =
              {t.tag : t \in {v \in visible_tags(p) :
                                v.recipe = recipe_id(p)}}]
  /\ Goto(p, "tags_write")
  /\ UNCHANGED <<Tag, recipes, lineItems, recipeRow, recipeTags, relations, follows, followId, subscription, req, effect, nreq>>

\* save_tags: instance.tags.set removes the tags it read that are not in
\* the list and adds the tags of the list it did not read
save_tags_set(p) ==
  LET tag_ids == Range(req[p].payload.tags)
      remove == {[recipe |-> recipe_id(p), tag |-> t] :
                   t \in tx[p].old_ids \ tag_ids}
      add == {[recipe |-> recipe_id(p), tag |-> t] :
                t \in tag_ids \ tx[p].old_ids}
  IN /\ pc[p] = "tags_write"
     /\ IF req[p].fail_at = "save_tags"
          THEN raise_exception(p, tx[p])
          ELSE /\ (remove \cup add) \cap tags_locked(p) = {}
               /\ tx' = [tx EXCEPT
                           ![p].tagdel = @ \cup (remove \cap recipeTags),
                           ![p].tagins = (@ \ remove)
                                           \cup (add \ visible_tags(p))]
               /\ Goto(p, "save")
               /\ UNCHANGED <<recipes, lineItems, recipeRow, recipeTags>>
     /\ UNCHANGED <<Tag, relations, follows, followId, subscription, req, effect, nreq>>

\* update: instance.save() writes the instance to its row; then
\* handle_request returns, the atomic block commits and the answer is
\* 200 (update) or 201 (create)
handle_request_return(p) ==
  /\ pc[p] = "save"
  /\ commit([tx[p] EXCEPT !.saved = TRUE], recipe_id(p))
  /\ tx' = [tx EXCEPT ![p] = NoTx]
  /\ effect' = [effect EXCEPT ![p] = "write"]
  /\ Finish(p, [Response(IF req[p].op = "recipe_create" THEN 201 ELSE 200,
                         "") EXCEPT !.data = recipe_id(p)])
  /\ UNCHANGED <<Tag, relations, follows, followId, subscription, req, nreq>>

\* ----------------------------------------------- RecipesViewSet destroy
\* destroy of ModelViewSet: get_object with check_object_permissions
RecipesViewSet_destroy(p) ==
  \E user \in Users, pk \in RecipeIds :
    /\ nreq < MaxWrites
    /\ Accept(p, Request("recipe_destroy", "DELETE", user, "none", pk))
    /\ IF pk \notin recipes
         THEN Finish(p, Response(404, "not_found"))
         ELSE IF ~has_object_permission(user, "DELETE", recipeRow[pk])
           THEN Finish(p, Response(403, "permission_denied"))
           ELSE Goto(p, "collect")
    /\ UNCHANGED <<Tag, recipes, lineItems, recipeRow, recipeTags, tx, relations, follows, followId, subscription>>

\* the keys of the Favorite / Shopping rows of a recipe
relations_of(pk) == {k \in RelKeys : k[3] = pk /\ relations[k] > 0}

\* instance.delete(), on_delete=CASCADE of IngredientRecipe.recipe: the
\* DELETE of the line items of the recipe takes its snapshot
destroy_filter(p) ==
  /\ pc[p] = "collect"
  /\ tx' = [tx EXCEPT ![p].target = filter_recipe(lineItems, req[p].pk)]
  /\ Goto(p, "delete_related")
  /\ UNCHANGED <<Tag, recipes, lineItems, recipeRow, recipeTags, relations, follows, followId, subscription, req, effect, nreq>>

\* on_delete=CASCADE of UsingRecipe.recipe: the rows that go with the recipe
CASCADE(keys) == keys

\* the DELETEs of the rows that refer to the recipe: line items (the rows
\* selected, a row another transaction removed meanwhile is skipped), tag
\* links, Favorite and Shopping rows; each waits for the row locks of the
\* other open transactions
destroy_related(p) ==
  LET pk == req[p].pk
      links == {t \in recipeTags : t.recipe = pk}
      keys == CASCADE(relations_of(pk))
  IN /\ pc[p] = "delete_related"
     /\ tx[p].target \cap items_locked(p) = {}
     /\ links \cap tags_locked(p) = {}
     /\ keys \cap relations_locked(p) = {}
     /\ tx' = [tx EXCEPT ![p].del = tx[p].target \cap lineItems,
                         ![p].target = {},
                         ![p].tagdel = links,
                         ![p].reldel = keys]
     /\ Goto(p, "delete_recipe")
     /\ UNCHANGED <<Tag, recipes, lineItems, recipeRow, recipeTags, relations, follows, followId, subscription, req, effect, nreq>>

\* mutant: the tables carry no foreign key constraint
ForeignKey_unchecked(work, pk) == FALSE

\* the FOREIGN KEY constraints on recipe_id, checked at COMMIT: a row
\* that work has not deleted still refers to recipe pk
ForeignKey(work, pk) ==
  \/ \E li \in lineItems \ work.del : li.recipe = pk
  \/ \E t \in recipeTags \ work.tagdel : t.recipe = pk
  \/ relations_of(pk) \ work.reldel # {}

\* the DELETE of the Recipe row and the COMMIT of instance.delete(); an
\* IntegrityError of the foreign keys rolls the deletes back
destroy_recipe(p) ==
  LET pk == req[p].pk
      work == tx[p]
  IN /\ pc[p] = "delete_recipe"
     /\ IF ForeignKey(work, pk)
          THEN /\ raise_exception(p, work)
               /\ UNCHANGED <<relations, effect>>
          ELSE /\ recipes' = recipes \ {pk}
               /\ recipeRow' = [recipeRow EXCEPT ![pk] = NoRow]
               /\ lineItems' = lineItems \ work.del
               /\ recipeTags' = recipeTags \ work.tagdel
               /\ relations' = [k \in RelKeys |->
                                  IF k \in work.reldel THEN 0
                                  ELSE relations[k]]
               /\ tx' = [tx EXCEPT ![p] = NoTx]
               /\ effect' = [effect EXCEPT ![p] = "delete"]
               /\ Finish(p, Response(204, ""))
     /\ UNCHANGED <<Tag, follows, followId, subscription, req, nreq>>

\* ------------------------------------------------------- specifications
\* relation requests and shopping-list downloads
Next ==
  \E p \in Workers :
    \/ handle_action_get(p)
    \/ handle_action_exists(p)
    \/ handle_action_is_valid(p)
    \/ handle_action_save(p)
    \/ handle_action_delete(p)
    \/ ShoppingPDFView_get(p)
    \/ send_response(p)

Spec == Init /\ [][Next]_vars

\* subscribe and unsubscribe requests (they touch the Follow table only)
NextSubscribe ==
  \E p \in Workers :
    \/ subscribe_get_author(p)
    \/ subscribe_is_valid(p)
    \/ subscribe_save(p)
    \/ subscribe_get_follow(p)
    \/ subscribe_delete(p)
    \/ subscriptions(p)
    \/ send_response(p)

SpecSubscribe == Init /\ [][NextSubscribe]_vars

\* recipe create and update requests
NextRecipe ==
  \E p \in Workers :
    \/ RecipesViewSet_create(p)
    \/ Recipe_objects_create(p)
    \/ RecipesViewSet_update(p)
    \/ save_ingredients_filter(p)
    \/ save_ingredients_delete(p)
    \/ save_ingredients_bulk_create(p)
    \/ save_tags_old_ids(p)
    \/ save_tags_set(p)
    \/ handle_request_return(p)
    \/ send_response(p)

SpecRecipe == Init /\ [][NextRecipe]_vars

\* recipe deletes beside favorite and shopping-cart requests
NextDestroy ==
  \E p \in Workers :
    \/ RecipesViewSet_destroy(p)
    \/ destroy_filter(p)
    \/ destroy_related(p)
    \/ destroy_recipe(p)
    \/ handle_action_get(p)
    \/ handle_action_exists(p)
    \/ handle_action_is_valid(p)
    \/ handle_action_save(p)
    \/ handle_action_delete(p)
    \/ send_response(p)

SpecDestroy == Init /\ [][NextDestroy]_vars

\* recipe updates beside recipe deletes
NextOwner ==
  \E p \in Workers :
    \/ RecipesViewSet_update(p)
    \/ save_ingredients_filter(p)
    \/ save_ingredients_delete(p)
    \/ save_ingredients_bulk_create(p)
    \/ save_tags_old_ids(p)
    \/ save_tags_set(p)
    \/ handle_request_return(p)
    \/ RecipesViewSet_destroy(p)
    \/ destroy_filter(p)
    \/ destroy_related(p)
    \/ destroy_recipe(p)
    \/ send_response(p)

SpecOwner == Init /\ [][NextOwner]_vars

\* downloads beside shopping-cart, favorite and subscribe requests
NextCart ==
  \E p \in Workers :
    \/ ShoppingPDFView_get(p)
    \/ handle_action_get(p)
    \/ handle_action_exists(p)
    \/ handle_action_is_valid(p)
    \/ handle_action_save(p)
    \/ handle_action_delete(p)
    \/ subscribe_get_author(p)
    \/ subscribe_is_valid(p)
    \/ subscribe_save(p)
    \/ subscribe_get_follow(p)
    \/ subscribe_delete(p)
    \/ send_response(p)

SpecCart == InitCart /\ [][NextCart]_vars

\* ------------------------------------------------------------ properties
\* worker p accepts a request of kind op in this step
Started(p, op) == pc[p] = "idle" /\ pc'[p] # "idle" /\ req'[p].op = op

\* worker p has answered a request of kind op
Answered(p, op) == pc[p] = "done" /\ req[p].op = op

\* the line items of the recipes in the shopping cart of user
CartItems(user) ==
  {li \in lineItems : relations[<<"shopping_cart", user, li.recipe>>] > 0}

SameNameUnit(li, rec) ==
  /\ Ingredient[li.ingredient].name = rec.name
  /\ Ingredient[li.ingredient].measurement_unit = rec.unit

RECURSIVE TotalAmount(_)
TotalAmount(items) ==
  IF items = {} THEN 0
  ELSE LET li == CHOOSE x \in items : TRUE
       IN TotalAmount(items \ {li}) + li.amount

\* C1: the list a download hands to the renderer has exactly one record for
\* every (name, unit) pair that occurs among the line items of the user's
\* cart recipes, no other record, and the record's amount is the sum of the
\* amounts of all those line items, across recipes and ingredient records.
C1_GroupedByNameAndUnit ==
  [][\A p \in Workers :
       (Started(p, "download") /\ resp'[p].rendered) =>
         LET out == resp'[p].ingredients
             items == CartItems(req'[p].user)
         IN /\ \A li \in items :
                 Cardinality({i \in 1 .. Len(out) :
                                SameNameUnit(li, out[i])}) = 1
            /\ \A i \in 1 .. Len(out) :
                 LET grp == {li \in items : SameNameUnit(li, out[i])}
                 IN grp # {} /\ out[i].amount = TotalAmount(grp)]_vars

C1_Witness ==
  \E p \in Workers :
    /\ Answered(p, "download") /\ resp[p].status = 200
    /\ shopping_recipes(req[p].user) = {1, 2}
    /\ \E i \in 1 .. Len(resp[p].ingredients) :
         resp[p].ingredients[i] = [name |-> "Flour", unit |-> "g", amount |-> 150]

\* C2: the list handed to the renderer is sorted ascending by name.
C2_SortedByName ==
  \A p \in Workers :
    \A i \in 1 .. Len(resp[p].ingredients) - 1 :
      NameRank(resp[p].ingredients[i].name)
        <= NameRank(resp[p].ingredients[i + 1].name)

C2_Witness ==
  \E p \in Workers :
    /\ Answered(p, "download") /\ resp[p].rendered
    /\ Len(resp[p].ingredients) >= 2
    /\ resp[p].ingredients[1].name = "Apple"
    /\ resp[p].ingredients[2].name = "Flour"

\* C3: a download by a user without shopping-cart rows, the store
\* answering, returns 204 with the empty-list message: no error status, no
\* document, and generate_pdf is not called.
C3_EmptyCartNoContent ==
  [][\A p \in Workers :
       ( /\ Started(p, "download")
         /\ is_user_valid(req'[p].user)
         /\ req'[p].db_up
         /\ \A r \in RecipeIds :
              relations[<<"shopping_cart", req'[p].user, r>>] = 0 ) =>
         /\ resp'[p].status = 204
         /\ resp'[p].detail = "SHOPPING_LIST_EMPTY"
         /\ ~resp'[p].rendered
         /\ resp'[p].ingredients = <<>>]_vars

C3_Witness ==
  \E p \in Workers :
    /\ Answered(p, "download") /\ req[p].db_up
    /\ resp[p].status = 204
    /\ \A r \in RecipeIds :
         relations[<<"shopping_cart", req[p].user, r>>] = 0

\* C4: a download whose fetch fails is answered 500 with the text of the
\* store's exception: never the 204 empty-list answer, never a validation
\* (400) answer, never a document.
C4_FetchFailureIsServerError ==
  \A p \in Workers :
    (Answered(p, "download") /\ is_user_valid(req[p].user) /\ ~req[p].db_up) =>
      /\ resp[p].status = 500
      /\ resp[p].detail = "OperationalError"
      /\ resp[p].detail # "SHOPPING_LIST_EMPTY"
      /\ ~resp[p].rendered
      /\ resp[p].ingredients = <<>>

C4_Witness ==
  \E p \in Workers :
    /\ Answered(p, "download") /\ ~req[p].db_up
    /\ resp[p].status = 500
    /\ shopping_recipes(req[p].user) # {}

\* C5: an add that finds the relation present is answered 400 with the
\* message of its kind, writes nothing, and the store holds exactly one row
\* for that (user, recipe, kind).
C5_AddExistingRejected ==
  [][\A p \in Workers :
       LET k == <<req[p].kind, req[p].user, req[p].pk>> IN
       ( /\ pc[p] = "exists" /\ pc'[p] # "exists"
         /\ req[p].method = "POST"
         /\ relations[k] > 0 ) =>
         /\ pc'[p] = "done"
         /\ resp'[p].status = 400
         /\ req[p].kind = "favorite"
              => resp'[p].detail = "RECIPE_IN_FAVORITE_EXISTS"
         /\ req[p].kind = "shopping_cart"
              => resp'[p].detail = "RECIPE_IN_SHOPPING_CART_EXISTS"
         /\ relations' = relations
         /\ relations'[k] = 1
         /\ effect'[p] = "none"]_vars

C5_Witness ==
  \E p \in Workers :
    /\ Answered(p, "relation") /\ req[p].method = "POST"
    /\ resp[p].status = 400
    /\ resp[p].detail = "RECIPE_IN_SHOPPING_CART_EXISTS"
    /\ relations[<<"shopping_cart", req[p].user, req[p].pk>>] = 1

\* C6: the store never holds two relations of one kind for one
\* (user, recipe).
C6_AtMostOneRelation == \A k \in RelKeys : relations[k] <= 1

\* two adds of the same relation raced and the constraint refused the later
\* INSERT
C6_Witness ==
  \E p, q \in Workers :
    /\ p # q
    /\ Answered(p, "relation") /\ Answered(q, "relation")
    /\ req[p] = req[q] /\ req[p].method = "POST"
    /\ effect[p] = "insert"
    /\ resp[q].status = 500
    /\ relations[<<req[p].kind, req[p].user, req[p].pk>>] = 1

\* C7 (as claimed): an add that passed the exists check and then meets the
\* row of a concurrent add is answered AlreadyExists (400, the message of
\* its kind), and exactly one row remains.
C7_RaceLoserSeesAlreadyExists ==
  [][\A q \in Workers :
       LET k == <<req[q].kind, req[q].user, req[q].pk>> IN
       ( /\ req[q].op = "relation" /\ req[q].method = "POST"
         /\ pc[q] \in {"is_valid", "save"} /\ pc'[q] = "done"
         /\ relations[k] > 0 ) =>
         /\ relations'[k] = 1
         /\ resp'[q].status = 400
         /\ resp'[q].detail \in {"RECIPE_IN_FAVORITE_EXISTS",
                                 "RECIPE_IN_SHOPPING_CART_EXISTS"}]_vars

\* C8: an add or a remove that names a recipe id without a Recipe row is
\* answered 404 RECIPE_NOT_FOUND at once and no relation row is written.
C8_MissingRecipeNotFound ==
  [][\A p \in Workers :
       ( /\ Started(p, "relation")
         /\ is_user_valid(req'[p].user)
         /\ req'[p].pk \notin recipes ) =>
         /\ pc'[p] = "done"
         /\ resp'[p].status = 404
         /\ resp'[p].detail = "RECIPE_NOT_FOUND"
         /\ relations' = relations
         /\ effect'[p] = "none"]_vars

C8_Witness ==
  \E p, q \in Workers :
    /\ Answered(p, "relation") /\ req[p].method = "POST"
    /\ req[p].pk \notin recipes /\ resp[p].status = 404
    /\ Answered(q, "relation") /\ req[q].method = "DELETE"
    /\ req[q].pk \notin recipes /\ resp[q].status = 404

\* C9 (as claimed): the not-found answers of a favorite remove and of a
\* shopping-cart remove carry different messages.
C9_NotFoundMessageNamesKind ==
  \A p, q \in Workers :
    ( /\ Answered(p, "relation") /\ Answered(q, "relation")
      /\ req[p].method = "DELETE" /\ req[q].method = "DELETE"
      /\ resp[p].status = 400 /\ resp[q].status = 400
      /\ req[p].kind # req[q].kind ) =>
      resp[p].detail # resp[q].detail

\* C9 (amended): a remove that finds no relation is answered 400 with
\* OBJECT_NOT_FOUND, the same message for both kinds, and writes nothing; a
\* remove that finds the relation deletes it and answers 204 without a
\* body.
C9_RemoveMissingOrDelete ==
  [][\A p \in Workers :
       LET k == <<req[p].kind, req[p].user, req[p].pk>> IN
       /\ ( /\ pc[p] = "exists" /\ pc'[p] # "exists"
            /\ req[p].method = "DELETE" ) =>
            IF relations[k] = 0
              THEN /\ pc'[p] = "done"
                   /\ resp'[p].status = 400
                   /\ resp'[p].detail = "OBJECT_NOT_FOUND"
                   /\ relations' = relations
                   /\ effect'[p] = "none"
              ELSE pc'[p] = "delete" /\ relations' = relations
       /\ (pc[p] = "delete" /\ pc'[p] # "delete") =>
            /\ pc'[p] = "done"
            /\ relations'[k] = 0
            /\ \A j \in RelKeys \ {k} : relations'[j] = relations[j]
            /\ resp'[p].status = 204
            /\ resp'[p].detail = "" /\ resp'[p].data = 0]_vars

C9_Witness ==
  \E p, q \in Workers :
    /\ Answered(p, "relation") /\ req[p].method = "DELETE"
    /\ resp[p].status = 400 /\ resp[p].detail = "OBJECT_NOT_FOUND"
    /\ Answered(q, "relation") /\ req[q].method = "DELETE"
    /\ resp[q].status = 204 /\ effect[q] = "delete"
    /\ relations[<<req[q].kind, req[q].user, req[q].pk>>] = 0

\* C10: a subscribe request of a user to itself never gets past
\* validation: it is answered 400 SELF_SUBSCRIBE_FORBIDDEN and inserts no
\* Follow row, whatever Follow rows exist.
C10_SelfSubscribeForbidden ==
  \A p \in Workers :
    ( /\ req[p].op = "subscribe" /\ req[p].method = "POST"
      /\ req[p].user = req[p].pk
      /\ is_user_valid(req[p].user) ) =>
      /\ pc[p] \in {"sub_is_valid", "done"}
      /\ effect[p] = "none"
      /\ pc[p] = "done" =>
           /\ resp[p].status = 400
           /\ resp[p].detail = "SELF_SUBSCRIBE_FORBIDDEN"
           /\ resp[p].data = 0

C10_Witness ==
  \E p \in Workers :
    /\ Answered(p, "subscribe") /\ req[p].method = "POST"
    /\ req[p].user = req[p].pk
    /\ resp[p].detail = "SELF_SUBSCRIBE_FORBIDDEN"
    /\ \E f \in follows : f.user = req[p].user

\* the Follow rows of the ordered pair (user, author)
FollowRows(user, author) ==
  {f \in follows : f.user = user /\ f.author = author}

\* C11: whatever subscribe and unsubscribe requests have interleaved, no
\* Follow row has user = author and no ordered pair (user, author) has
\* more than one Follow row.
C11_FollowGraphWellFormed ==
  /\ \A f \in follows : f.user # f.author
  /\ \A u \in Users, a \in Users : Cardinality(FollowRows(u, a)) <= 1

\* two subscribe requests for one pair passed validation together: one
\* inserted the row, the other met the constraint
C11_Witness ==
  \E p, q \in Workers :
    /\ Answered(p, "subscribe") /\ effect[p] = "insert"
    /\ Answered(q, "subscribe") /\ req[q].method = "POST"
    /\ req[q].user = req[p].user /\ req[q].pk = req[p].pk
    /\ resp[q].status = 500
    /\ Cardinality(FollowRows(req[p].user, req[p].pk)) = 1

\* C12: a subscribe request of a valid user to another, deactivated user
\* never gets past validation: it is answered 400 INACTIVE_USER and
\* inserts no Follow row.
C12_InactiveTargetRejected ==
  \A p \in Workers :
    ( /\ req[p].op = "subscribe" /\ req[p].method = "POST"
      /\ req[p].pk \in Users /\ req[p].user # req[p].pk
      /\ ~is_active[req[p].pk]
      /\ is_user_valid(req[p].user) ) =>
      /\ pc[p] \in {"sub_is_valid", "done"}
      /\ effect[p] = "none"
      /\ FollowRows(req[p].user, req[p].pk) = {}
      /\ pc[p] = "done" =>
           /\ resp[p].status = 400
           /\ resp[p].detail = "INACTIVE_USER"
           /\ resp[p].data = 0

C12_Witness ==
  \E p \in Workers :
    /\ Answered(p, "subscribe") /\ req[p].method = "POST"
    /\ req[p].pk \in Users /\ req[p].user # req[p].pk
    /\ ~is_active[req[p].pk]
    /\ resp[p].status = 400 /\ resp[p].detail = "INACTIVE_USER"

C14_UnsubscribeMissingOrDelete ==
  [][\A p \in Workers :
       /\ ( /\ pc[p] = "sub_get" /\ pc'[p] # "sub_get"
            /\ FollowRows(req[p].user, req[p].pk) = {} ) =>
            /\ pc'[p] = "done"
            /\ resp'[p].status = 400
            /\ resp'[p].detail = "SUBSCRIPTION_NOT_FOUND"
            /\ follows' = follows
       /\ ( /\ pc[p] = "sub_get" /\ pc'[p] # "sub_get"
            /\ FollowRows(req[p].user, req[p].pk) # {} ) =>
            /\ pc'[p] = "sub_delete"
            /\ follows' = follows
       /\ ( pc[p] = "sub_delete" /\ pc'[p] # "sub_delete" ) =>
            /\ pc'[p] = "done"
            /\ resp'[p].status = 204
            /\ follows' = {f \in follows : f.id # subscription[p]}
            /\ (\E f \in follows : f.id = subscription[p]) =>
                 {f \in follows' : f.user = req[p].user
                                     /\ f.author = req[p].pk} = {}]_vars

\* a row was deleted by one unsubscribe and the next one found none
C14_Witness ==
  \E p, q \in Workers :
    /\ Answered(p, "subscribe") /\ req[p].method = "DELETE"
    /\ resp[p].status = 204 /\ effect[p] = "delete"
    /\ Answered(q, "subscribe") /\ req[q].method = "DELETE"
    /\ req[q].user = req[p].user /\ req[q].pk = req[p].pk
    /\ resp[q].status = 400 /\ resp[q].detail = "SUBSCRIPTION_NOT_FOUND"

\* C15 (as claimed): the answer of a subscriptions request lists exactly
\* the users its user follows, and when recipes_limit is supplied as a
\* non-negative integer L every listed user carries at most L recipes.
C15_LimitBoundsRecipes ==
  \A p \in Workers :
    ( /\ Answered(p, "subscriptions") /\ resp[p].status = 200
      /\ is_int_literal(req[p].recipes_limit)
      /\ int(req[p].recipes_limit) >= 0 ) =>
      /\ {rec.id : rec \in resp[p].results} = followed_users(req[p].user)
      /\ \A rec \in resp[p].results :
           Len(rec.recipes) <= int(req[p].recipes_limit)

\* the recipe tables
store == <<recipes, recipeRow, lineItems, recipeTags>>

\* worker p holds a recipe create or update request
IsWrite(p) == req[p].op \in {"recipe_create", "recipe_update"}

\* the request of p passes the permission checks and get_object
Admitted(p) ==
  IF req[p].op = "recipe_create" THEN is_user_valid(req[p].user)
  ELSE /\ req[p].pk \in recipes
       /\ has_object_permission(req[p].user, req[p].method,
                                recipeRow[req[p].pk])

\* a list names one id more than once
HasDuplicate(ids) ==
  \E i, j \in 1 .. Len(ids) : i # j /\ ids[i] = ids[j]

\* the ids of a list of ingredient items
ItemIds(ingredients) ==
  [i \in 1 .. Len(ingredients) |-> ingredients[i].id]

\* every amount of the list is a positive integer
AmountsPositive(ingredients) ==
  \A i \in 1 .. Len(ingredients) : ingredients[i].amount >= 1

\* worker p is answered 400 in this step, and the step writes nothing
Rejected(p) ==
  /\ pc'[p] = "done" /\ resp'[p].status = 400
  /\ store' = store /\ tx' = tx

\* C16: a recipe create or update that passes the permission checks and
\* whose tag list or ingredient list names an id twice is answered 400
\* at validation and writes nothing; the error is filed under the name
\* of the list and is its duplicate message (TAGS_DUPLICATE_ERROR,
\* INGREDIENTS_DUPLICATE_ERROR; an ingredient list that also has an
\* amount below 1 is rejected for the amount, which is checked first).
C16_DuplicateIdsRejected ==
  [][\A p \in Workers :
       LET payload == req'[p].payload IN
       ( /\ pc[p] = "idle" /\ pc'[p] # "idle" /\ IsWrite(p)' /\ Admitted(p)'
         /\ \/ HasDuplicate(payload.tags)
            \/ HasDuplicate(ItemIds(payload.ingredients)) ) =>
         /\ Rejected(p)
         /\ HasDuplicate(payload.tags) =>
              resp'[p].errors.tags = "TAGS_DUPLICATE_ERROR"
         /\ HasDuplicate(ItemIds(payload.ingredients)) =>
              resp'[p].errors.ingredients =
                IF AmountsPositive(payload.ingredients)
                  THEN "INGREDIENTS_DUPLICATE_ERROR" ELSE "InvalidAmount"]_vars

\* a create with a duplicate tag id and an update with a duplicate
\* ingredient id were rejected
C16_Witness ==
  \E p, q \in Workers :
    /\ Answered(p, "recipe_create") /\ HasDuplicate(req[p].payload.tags)
    /\ resp[p].errors.tags = "TAGS_DUPLICATE_ERROR"
    /\ Answered(q, "recipe_update")
    /\ HasDuplicate(ItemIds(req[q].payload.ingredients))
    /\ resp[q].errors.ingredients = "INGREDIENTS_DUPLICATE_ERROR"
    /\ store = <<{1, 2},
                 [r \in RecipeIds |-> IF r \in {1, 2}
                    THEN [author |-> 1, name |-> "Pie"] ELSE NoRow],
                 lineItems, {[recipe |-> 1, tag |-> 1],
                             [recipe |-> 2, tag |-> 2]}>>

\* C17: a recipe create or update that passes the permission checks and
\* whose tag list or ingredient list is empty, or names (once each) an id
\* without a row, is answered 400 at validation and writes nothing; the
\* error is filed under the name of the list, and it is the REQUIRED
\* message for the empty list and the NOT_FOUND message, not the
\* duplicate one, for the missing id.
C17_EmptyOrMissingRejected ==
  [][\A p \in Workers :
       LET payload == req'[p].payload
           tags == payload.tags
           ids == ItemIds(payload.ingredients)
       IN ( pc[p] = "idle" /\ pc'[p] # "idle" /\ IsWrite(p)'
            /\ Admitted(p)' ) =>
            /\ tags = <<>> =>
                 Rejected(p) /\ resp'[p].errors.tags = "TAGS_REQUIRED"
            /\ ids = <<>> =>
                 /\ Rejected(p)
                 /\ resp'[p].errors.ingredients = "INGREDIENTS_REQUIRED"
            /\ (~HasDuplicate(tags) /\ Range(tags) \ TagIds # {}) =>
                 Rejected(p) /\ resp'[p].errors.tags = "TAGS_NOT_FOUND"
            /\ ( /\ ~HasDuplicate(ids) /\ Range(ids) \ IngredientIds # {}
                 /\ AmountsPositive(payload.ingredients) ) =>
                 /\ Rejected(p)
                 /\ resp'[p].errors.ingredients = "INGREDIENTS_NOT_FOUND"]_vars

\* an update with an empty tag list and a create with a missing
\* ingredient id were rejected
C17_Witness ==
  \E p, q \in Workers :
    /\ Answered(p, "recipe_update") /\ req[p].payload.tags = <<>>
    /\ resp[p].status = 400 /\ resp[p].errors.tags = "TAGS_REQUIRED"
    /\ resp[p].errors.ingredients = ""
    /\ Answered(q, "recipe_create")
    /\ NoIngredient \in Range(ItemIds(req[q].payload.ingredients))
    /\ resp[q].status = 400
    /\ resp[q].errors.ingredients = "INGREDIENTS_NOT_FOUND"

\* C18: a recipe create or update that passes the permission checks and
\* has an ingredient amount below 1 is answered 400 with InvalidAmount
\* filed under 'ingredients' and opens no transaction; every line item,
\* stored or inserted by an open transaction, has an amount of at least 1.
C18_AmountsPositive ==
  /\ \A li \in lineItems \cup UNION {tx[q].ins : q \in Workers} :
       li.amount >= 1
  /\ \A p \in Workers :
       ( /\ pc[p] # "idle" /\ IsWrite(p) /\ Admitted(p)
         /\ ~AmountsPositive(req[p].payload.ingredients) ) =>
         /\ pc[p] = "done" /\ resp[p].status = 400
         /\ resp[p].errors.ingredients = "InvalidAmount"
         /\ tx[p] = NoTx /\ effect[p] = "none"

\* a negative amount was rejected, and another request has stored rows
C18_Witness ==
  \E p, q \in Workers :
    /\ Answered(p, "recipe_update")
    /\ \E i \in 1 .. Len(req[p].payload.ingredients) :
         req[p].payload.ingredients[i].amount < 0
    /\ resp[p].errors.ingredients = "InvalidAmount"
    /\ Answered(q, "recipe_create") /\ resp[q].status = 201
    /\ \E li \in lineItems : li.recipe = resp[q].data

\* the (ingredient, amount) pairs of a list of validated ingredients
PayloadPairs(ingredients) ==
  {<<ingredients[i].id, ingredients[i].amount>> :
     i \in 1 .. Len(ingredients)}

\* the (ingredient, amount) pairs of the line items of recipe r in items
PairsOf(items, r) ==
  {<<li.ingredient, li.amount>> : li \in {x \in items : x.recipe = r}}

\* the tag ids of recipe r in the through rows
TagsOf(rows, r) == {t.tag : t \in {x \in rows : x.recipe = r}}

\* worker p answers a recipe write with success in this step
Committed(p) == pc[p] = "save" /\ pc'[p] = "done"

\* C19 (as claimed): when a recipe create or update is answered with
\* success, the stored line items of the recipe are exactly the
\* (ingredient, amount) pairs of the payload and its stored tags are
\* exactly the tag ids of the payload.
C19_StoredEqualsPayload ==
  [][\A p \in Workers :
       Committed(p) =>
         /\ PairsOf(lineItems', recipe_id(p)) =
              PayloadPairs(req[p].payload.ingredients)
         /\ TagsOf(recipeTags', recipe_id(p)) =
              Range(req[p].payload.tags)]_vars

\* C20: a recipe write that ends in an error leaves the recipe tables as
\* they were (a failed create leaves no Recipe row). The tables change
\* only in the step in which a write is answered with success, and that
\* step puts the name, every line item and the tag changes of the
\* request in place together and touches no other recipe: no step shows
\* other requests a part of a write.
C20_AllOrNothing ==
  [][/\ \A p \in Workers :
          ( /\ IsWrite(p)' /\ pc[p] # "done" /\ pc'[p] = "done"
            /\ resp'[p].status \notin {200, 201} ) => store' = store
     /\ store' # store =>
          \E p \in Workers :
            LET r == recipe_id(p) IN
            /\ Committed(p) /\ resp'[p].status \in {200, 201}
            /\ r \in recipes'
            /\ recipeRow'[r].name = req[p].payload.name
            /\ PayloadPairs(req[p].payload.ingredients)
                 \subseteq PairsOf(lineItems', r)
            /\ \A o \in RecipeIds \ {r} :
                 /\ (o \in recipes') = (o \in recipes)
                 /\ recipeRow'[o] = recipeRow[o]
                 /\ PairsOf(lineItems', o) = PairsOf(lineItems, o)
                 /\ TagsOf(recipeTags', o) = TagsOf(recipeTags, o)]_vars

\* an update failed in the middle of its bulk insert and a create failed
\* in save_tags; recipe 1 has its two line items and tag, no recipe 3
C20_Witness ==
  \E p, q \in Workers :
    /\ Answered(p, "recipe_update") /\ req[p].fail_at = "bulk_create"
    /\ req[p].pk = 1 /\ resp[p].status = 500
    /\ Answered(q, "recipe_create") /\ req[q].fail_at = "save_tags"
    /\ resp[q].status = 500
    /\ recipes = {1, 2} /\ recipeRow[1].name = "Pie"
    /\ PairsOf(lineItems, 1) = {<<1, 100>>, <<3, 2>>}
    /\ TagsOf(recipeTags, 1) = {1}

\* C21: whatever recipe creates and updates have run, the stored line
\* items hold at most one row per (recipe, ingredient).
C21_OneLineItemPerIngredient ==
  \A li \in lineItems, lj \in lineItems :
    (li.recipe = lj.recipe /\ li.ingredient = lj.ingredient) => li = lj

\* two updates of one recipe with the same ingredient raced: one stored
\* its row, the INSERT of the other met the constraint
C21_Witness ==
  \E p, q \in Workers :
    /\ p # q
    /\ Answered(p, "recipe_update") /\ resp[p].status = 200
    /\ Answered(q, "recipe_update") /\ req[q].pk = req[p].pk
    /\ req[q].fail_at = "none" /\ resp[q].status = 500
    /\ PairsOf(lineItems, req[p].pk) =
         PayloadPairs(req[p].payload.ingredients)

\* C22 (as claimed): two concurrent updates of one recipe serialize. Once
\* both are answered with success, the line items and the tags of the
\* recipe are those of the payload of one of the two writers, never a
\* union or a mixture of the two payloads.
C22_LastWriterWins ==
  \A p, q \in Workers :
    ( /\ p # q
      /\ Answered(p, "recipe_update") /\ resp[p].status = 200
      /\ Answered(q, "recipe_update") /\ resp[q].status = 200
      /\ req[p].pk = req[q].pk ) =>
        \E w \in {p, q} :
          /\ PairsOf(lineItems, req[w].pk) =
               PayloadPairs(req[w].payload.ingredients)
          /\ TagsOf(recipeTags, req[w].pk) = Range(req[w].payload.tags)

\* the recipe the request of worker p writes or has written
WritesTo(p) ==
  IF pc[p] = "done" /\ req[p].op = "recipe_create" THEN resp[p].data
  ELSE recipe_id(p)

\* the write of worker p and the requests the other workers are serving
\* are all the requests there have been, and none of the others is
\* for the recipe of p
NoOtherWriter(p) ==
  /\ nreq = Cardinality({q \in Workers : pc[q] # "idle"})
  /\ \A q \in Workers \ {p} :
       pc[q] # "idle" => WritesTo(q) # recipe_id(p)

\* the line items, tags and fields of recipe r
RecipeState(r) ==
  <<r \in recipes, recipeRow[r],
    {li \in lineItems : li.recipe = r},
    {t \in recipeTags : t.recipe = r}>>

\* C23: the step that stores a recipe create or update leaves the line
\* items, tags and fields of every other recipe unchanged; a writer
\* with no other writer on its recipe, alone or beside writers of other
\* recipes, leaves its recipe with exactly the name, line items and tags
\* of its payload, as if it had run alone.
C23_OtherRecipesUntouched ==
  [][\A p \in Workers :
       Committed(p) =>
         LET r == recipe_id(p) IN
         /\ \A o \in RecipeIds \ {r} : RecipeState(o)' = RecipeState(o)
         /\ NoOtherWriter(p) =>
              /\ r \in recipes'
              /\ recipeRow'[r].name = req[p].payload.name
              /\ PairsOf(lineItems', r) =
                   PayloadPairs(req[p].payload.ingredients)
              /\ TagsOf(recipeTags', r) = Range(req[p].payload.tags)]_vars

\* two writers of different recipes overlapped: q inserted its rows before
\* p did and is still uncommitted when p has stored its payload
C23_Witness ==
  \E p, q \in Workers :
    /\ p # q /\ nreq = 2
    /\ pc[p] = "done" /\ IsWrite(p) /\ resp[p].status \in {200, 201}
    /\ pc[q] = "save" /\ IsWrite(q) /\ recipe_id(q) # WritesTo(p)
    /\ \E li \in lineItems, lj \in tx[q].ins :
         li.recipe = WritesTo(p) /\ lj.id < li.id
    /\ PairsOf(lineItems, WritesTo(p)) =
         PayloadPairs(req[p].payload.ingredients)
    /\ PairsOf(lineItems, recipe_id(q)) #
         PayloadPairs(req[q].payload.ingredients)

\* C24: a recipe gets the requesting user as author when it is created,
\* and no step changes the author of a stored recipe afterwards.
C24_AuthorFixed ==
  [][\A r \in RecipeIds :
       /\ r \in recipes =>
            recipeRow'[r].author = recipeRow[r].author
       /\ (r \notin recipes /\ r \in recipes') =>
            \E p \in Workers :
              /\ Committed(p) /\ req[p].op = "recipe_create"
              /\ recipe_id(p) = r
              /\ recipeRow'[r].author = req[p].user]_vars

\* a recipe created by user 2 has been updated and is still of user 2
C24_Witness ==
  \E p \in Workers :
    /\ Answered(p, "recipe_update") /\ resp[p].status = 200
    /\ req[p].pk \notin {1, 2}
    /\ recipeRow[req[p].pk].name = req[p].payload.name
    /\ recipeRow[req[p].pk].author = req[p].user
    /\ req[p].user = 2

\* C26: no step of a recipe create or update adds, removes or changes a
\* Tag row; every tag a recipe has, stored or written by an open
\* transaction, is a row of the Tag table; and a write that passes the
\* permission checks and names a tag id without a row is answered 400
\* with an error under 'tags' and writes nothing.
C26_TagStoreUnchanged ==
  [][/\ Tag' = Tag
     /\ \A t \in recipeTags' \cup UNION {tx'[q].tagins : q \in Workers} :
          t.tag \in Tag'
     /\ \A p \in Workers :
          ( /\ pc[p] = "idle" /\ pc'[p] # "idle" /\ IsWrite(p)'
            /\ Admitted(p)'
            /\ Range(req'[p].payload.tags) \ Tag # {} ) =>
              Rejected(p) /\ resp'[p].errors.tags # ""]_vars

\* a write naming a tag id without a row was refused, another write has
\* stored its tags, and the Tag table is as it was
C26_Witness ==
  \E p, q \in Workers :
    /\ IsWrite(p) /\ pc[p] = "done"
    /\ NoTag \in Range(req[p].payload.tags)
    /\ resp[p].status = 400 /\ resp[p].errors.tags = "TAGS_NOT_FOUND"
    /\ IsWrite(q) /\ pc[q] = "done" /\ resp[q].status \in {200, 201}
    /\ TagsOf(recipeTags, WritesTo(q)) = Range(req[q].payload.tags)
    /\ Tag = TagIds

\* C25: no line item, tag link, Favorite row or Shopping row refers to
\* a recipe that is not stored, so no row of a deleted recipe reaches a
\* shopping list; and a recipe delete answered 204 removed, in that
\* step, the recipe with every line item and every Favorite and
\* Shopping row that referred to it.
C25_DeleteCascades ==
  [][/\ \A li \in lineItems' : li.recipe \in recipes'
     /\ \A t \in recipeTags' : t.recipe \in recipes'
     /\ \A k \in RelKeys : relations'[k] > 0 => k[3] \in recipes'
     /\ \A u \in Users : \A li \in CartItems(u)' : li.recipe \in recipes'
     /\ \A p \in Workers :
          ( /\ pc[p] = "delete_recipe" /\ pc'[p] = "done"
            /\ resp'[p].status = 204 ) =>
              /\ req[p].pk \notin recipes'
              /\ filter_recipe(lineItems', req[p].pk) = {}
              /\ \A k \in RelKeys : k[3] = req[p].pk => relations'[k] = 0
              /\ \A u \in Users :
                   CartItems(u)' = {li \in CartItems(u) :
                                      li.recipe # req[p].pk}]_vars

\* a recipe that was in a shopping cart has been deleted: its line items
\* and the cart row are gone
C25_Witness ==
  \E p \in Workers :
    /\ Answered(p, "recipe_destroy") /\ resp[p].status = 204
    /\ req[p].pk = 1 /\ 1 \notin recipes
    /\ effect[p] = "delete"
    /\ filter_recipe(lineItems, 1) = {}
    /\ \A k \in RelKeys : k[3] = 1 => relations[k] = 0
    /\ \E q \in Workers :
         /\ Answered(q, "relation") /\ req[q].pk = 1
         /\ req[q].kind = "shopping_cart" /\ resp[q].status = 201

\* worker p serves an update or a delete of a recipe
IsOwnerOp(p) == req[p].op \in {"recipe_update", "recipe_destroy"}

\* C28: an update or a delete of a stored recipe by a user who is not
\* its author, or who is inactive, is answered 403 permission_denied in
\* the step that accepts it and changes nothing; and every step that
\* changes a recipe, its tags or its line items, or removes it, is the
\* last step of an update or delete request sent by the author of the
\* recipe.
C28_OnlyAuthorWrites ==
  [][/\ \A p \in Workers :
          ( /\ pc[p] = "idle" /\ pc'[p] # "idle" /\ IsOwnerOp(p)'
            /\ req'[p].pk \in recipes
            /\ ~( /\ is_user_valid(req'[p].user)
                  /\ recipeRow[req'[p].pk].author = req'[p].user ) ) =>
              /\ pc'[p] = "done" /\ resp'[p].status = 403
              /\ resp'[p].detail = "permission_denied"
              /\ store' = store /\ tx' = tx /\ relations' = relations
     /\ \A r \in RecipeIds :
          RecipeState(r)' # RecipeState(r) =>
            \E p \in Workers :
              /\ IsOwnerOp(p) /\ req[p].pk = r
              /\ pc[p] # "done" /\ pc'[p] = "done"
              /\ resp'[p].status \in {200, 204}
              /\ is_user_valid(req[p].user)
              /\ req[p].user = IF r \in recipes THEN recipeRow[r].author
                                ELSE tx[p].row.author]_vars

\* user 2 was refused the delete and inactive user 3 the update of
\* a recipe of user 1, which is as it was
C28_Witness ==
  \E p, q \in Workers :
    /\ Answered(p, "recipe_destroy") /\ req[p].user = 2
    /\ Answered(q, "recipe_update") /\ req[q].user = 3
    /\ req[p].pk = req[q].pk
    /\ resp[p].status = 403 /\ resp[q].status = 403
    /\ req[p].pk \in recipes
    /\ recipeRow[req[p].pk] = [author |-> 1, name |-> "Pie"]
    /\ filter_recipe(lineItems, req[p].pk) # {}

\* the aggregation over the line items of the recipes ids
Aggregation(ids) == order_by(annotate(filter_recipe_id_in(ids)))

\* worker p is in the middle of adding a recipe to the cart of user
AddingToCart(p, user) ==
  /\ pc[p] \in {"exists", "is_valid", "save"}
  /\ req[p].op = "relation" /\ req[p].method = "POST"
  /\ req[p].kind = "shopping_cart" /\ req[p].user = user

\* C27: a shopping-list download, whatever it answers, leaves the
\* recipes, line items, tags, relations and follows as they were; the list
\* it renders (or finds empty) is the aggregation of the cart rows
\* stored at that moment, so beside an unfinished add to the same cart it
\* is the aggregation of the cart without or with the added recipe.
C27_DownloadPureRead ==
  [][\A p \in Workers :
       Started(p, "download") =>
         LET user == req'[p].user
             out == resp'[p]
             cart == shopping_recipes(user)
         IN /\ store' = store /\ Tag' = Tag /\ tx' = tx
            /\ relations' = relations /\ follows' = follows
            /\ (out.rendered \/ out.status = 204) =>
                 /\ out.ingredients \in Aggregation(cart)
                 /\ \A q \in Workers :
                      AddingToCart(q, user) =>
                        out.ingredients \in
                          Aggregation(cart \ {req[q].pk})
                            \cup Aggregation(cart \cup {req[q].pk})]_vars

\* a list was rendered for a user while another request was about to
\* insert a further recipe into the cart of that user
C27_Witness ==
  \E p, q \in Workers :
    /\ Answered(p, "download") /\ resp[p].status = 200 /\ resp[p].rendered
    /\ AddingToCart(q, req[p].user) /\ pc[q] = "save"
    /\ shopping_recipes(req[p].user) # {}
    /\ req[q].pk \notin shopping_recipes(req[p].user)
    /\ resp[p].ingredients \in Aggregation(shopping_recipes(req[p].user))

\* the Shopping rows of user
CartRows(user) ==
  [r \in RecipeIds |-> relations[<<"shopping_cart", user, r>>]]

\* C29: the list a download renders for a user is the aggregation of the
\* line items of the recipes in the Shopping rows of that user; a step
\* that leaves those rows and those line items as they are, whatever it
\* does to the carts of other users, to Favorite rows or to the follow
\* graph (a step that writes a relation or a follow row), leaves the
\* lists the user can be given unchanged.
C29_OwnCartOnly ==
  [][/\ <<relations, follows>>' # <<relations, follows>> =>
          \A u \in Users :
            (CartRows(u)' = CartRows(u) /\ CartItems(u)' = CartItems(u)) =>
              ingredients_data(u)' = ingredients_data(u)
     /\ \A p \in Workers :
          (Started(p, "download") /\ resp'[p].rendered) =>
            resp'[p].ingredients \in
              order_by(annotate(CartItems(req'[p].user)))]_vars

\* a list was rendered for a user while another user has a recipe in the
\* cart and somebody follows somebody
C29_Witness ==
  \E p \in Workers :
    /\ Answered(p, "download") /\ resp[p].rendered
    /\ resp[p].ingredients \in ingredients_data(req[p].user)
    /\ \/ follows # {}
       \/ \E u \in Users \ {req[p].user} : shopping_recipes(u) # {}
       \/ \E k \in RelKeys : k[1] = "favorite" /\ relations[k] > 0
    /\ \E u \in Users \ {req[p].user} : CartItems(u) # CartItems(req[p].user)

\* C30: a download that passes the permission check and whose query is
\* answered returns 204 SHOPPING_LIST_EMPTY, without rendering, exactly
\* when no line item belongs to a recipe of the cart of the user, be the
\* cart empty or filled with recipes that have no line items; otherwise
\* the renderer is called with a list that is not empty.
C30_EmptySignal ==
  [][\A p \in Workers :
       ( /\ Started(p, "download")
         /\ IsAuthenticatedAndActive(req'[p].user, "GET")
         /\ req'[p].db_up ) =>
           LET empty == CartItems(req'[p].user) = {}
               out == resp'[p]
           IN /\ empty <=> ( /\ out.status = 204
                             /\ out.detail = "SHOPPING_LIST_EMPTY" )
              /\ empty => ~out.rendered
              /\ ~empty => out.rendered /\ out.ingredients # <<>>]_vars

\* a user whose cart holds only a recipe without line items was given
\* the empty signal
C30_Witness ==
  \E p \in Workers :
    /\ Answered(p, "download")
    /\ resp[p].status = 204 /\ resp[p].detail = "SHOPPING_LIST_EMPTY"
    /\ shopping_recipes(req[p].user) = {1}
    /\ filter_recipe(lineItems, 1) = {}
    /\ ~resp[p].rendered

====
